---- MODULE Spec2Model ----
(***************************************************************************)
(* Model of the AI molecule-design backend (the Express router whose code  *)
(* is in backend/requirements.txt) and of the simulation endpoints it      *)
(* calls (backend/api/simulation.js.bak).                                  *)
(*                                                                         *)
(* A text is a sequence of one-character strings.  A request handler is    *)
(* split at its await points: one action per reply that resumes it, and    *)
(* each action runs the synchronous code up to the next await.             *)
(***************************************************************************)
EXTENDS Integers, Sequences, FiniteSets, TLC

(***************************************************************************)
(* Bounds                                                                  *)
(***************************************************************************)
MaxRequests == 1

\* longest text of the exhaustive part of the extractor's inputs
MaxTextLen == 6

(***************************************************************************)
(* Characters.  \w of the regular expression is letters, digits and "_";   *)
(* the character class of smilesRegex is letters, digits and the listed    *)
(* punctuation.                                                            *)
(***************************************************************************)
Letters == {"C", "N", "O", "H", "c", "h", "t", "p", "n", "o", "e"}

Digits == {"1", "2"}

ClassPunct ==
  {"@", "+", "-", "[", "]", "(", ")", "\\", "/", "%", "=", "#", "$", "!",
   ".", "~", "{", "}", ",", "*"}

IsWordChar(c) == c \in Letters \cup Digits \cup {"_"}

InSmilesClass(c) == c \in Letters \cup Digits \cup ClassPunct

(***************************************************************************)
(* smilesRegex = /\b([class]+)\b/g applied by String.prototype.match       *)
(***************************************************************************)
\* position i lies between s[i] and s[i+1]; \b holds there when exactly one
\* of the two neighbours is a word character
WordBoundary(s, i) ==
  LET wd(j) == j \in 1..Len(s) /\ IsWordChar(s[j])
  IN  wd(i) # wd(i + 1)

\* greedy extent of [class]+ started after position i
RECURSIVE RunEnd(_, _)
RunEnd(s, i) ==
  IF i < Len(s) /\ InSmilesClass(s[i + 1]) THEN RunEnd(s, i + 1) ELSE i

\* backtracking: the longest prefix of the run that ends on a word boundary
\* (0 when there is none)
RECURSIVE BacktrackEnd(_, _, _)
BacktrackEnd(s, i, e) ==
  IF e <= i THEN 0
  ELSE IF WordBoundary(s, e) THEN e
  ELSE BacktrackEnd(s, i, e - 1)

MatchEnd(s, i) == BacktrackEnd(s, i, RunEnd(s, i))

\* all matches, left to right, each search resuming at the end of the last
RECURSIVE RegexMatches(_, _)
RegexMatches(s, i) ==
  IF i >= Len(s) THEN << >>
  ELSE IF WordBoundary(s, i) /\ MatchEnd(s, i) # 0
       THEN << SubSeq(s, i + 1, MatchEnd(s, i)) >>
              \o RegexMatches(s, MatchEnd(s, i))
       ELSE RegexMatches(s, i + 1)

\* String.prototype.includes
Includes(s, sub) ==
  \E k \in 0..(Len(s) - Len(sub)) : SubSeq(s, k + 1, k + Len(sub)) = sub

IncludesChar(s, c) == \E k \in 1..Len(s) : s[k] = c

\* the length test off by one
SmilesLikeFromFive(match) ==
  /\ Len(match) >= 5
  /\ ~Includes(match, <<"h", "t", "t", "p">>)
  /\ (IncludesChar(match, "C") \/ IncludesChar(match, "N")
        \/ IncludesChar(match, "O"))
  /\ (IncludesChar(match, "(") \/ IncludesChar(match, "=")
        \/ IncludesChar(match, "[") \/ IncludesChar(match, "#"))

\* the test for a structural character left out
SmilesLikeAtomOnly(match) ==
  /\ Len(match) > 5
  /\ ~Includes(match, <<"h", "t", "t", "p">>)
  /\ (IncludesChar(match, "C") \/ IncludesChar(match, "N")
        \/ IncludesChar(match, "O"))

\* the callback of potentialSMILES.filter
SmilesLike(match) ==
  /\ Len(match) > 5
  /\ ~Includes(match, <<"h", "t", "t", "p">>)
  /\ (IncludesChar(match, "C") \/ IncludesChar(match, "N")
        \/ IncludesChar(match, "O"))
  /\ (IncludesChar(match, "(") \/ IncludesChar(match, "=")
        \/ IncludesChar(match, "[") \/ IncludesChar(match, "#"))

RECURSIVE FilterSmiles(_)
FilterSmiles(ms) ==
  IF ms = << >> THEN << >>
  ELSE IF SmilesLike(Head(ms)) THEN << Head(ms) >> \o FilterSmiles(Tail(ms))
       ELSE FilterSmiles(Tail(ms))

\* content.match(smilesRegex) with the g flag: the array of all matches, or
\* null when there is none
StringMatch(content) ==
  LET found == RegexMatches(content, 0)
  IN  [null |-> found = << >>, matches |-> found]

\* the match result used as it comes
OrEmptyArrayMissing(m) == m

\* `|| []`: null is replaced by an empty array
OrEmptyArray(m) ==
  IF m.null THEN [null |-> FALSE, matches |-> << >>] ELSE m

\* the body of extractSMILES: calling filter on null throws a TypeError
ExtractCall(content) ==
  LET m == OrEmptyArray(StringMatch(content))
  IN  IF m.null THEN [raised |-> TRUE, tokens |-> << >>]
      ELSE [raised |-> FALSE, tokens |-> FilterSmiles(m.matches)]

extractSMILES(content) == ExtractCall(content).tokens

(***************************************************************************)
(* Completion texts the text-completion service may return                 *)
(***************************************************************************)
Sp == << " " >>

Prose == << "n", "o", "n", "e" >>

Acetic == << "C", "C", "(", "=", "O", ")", "O" >>

Nitrile == << "N", "#", "C", "C", "=", "O" >>

ShortFrag == << "C", "=", "O" >>

UrlLike == << "h", "t", "t", "p", "C", "(", "=", "O", ")", "N" >>

TextNone == Prose \o Sp \o ShortFrag \o Sp \o UrlLike

TextOne == Prose \o Sp \o Acetic \o << "." >>

TextTwo == Acetic \o Sp \o ShortFrag \o Sp \o Nitrile

TextThree == Acetic \o << ",", " " >> \o Nitrile \o Sp \o UrlLike \o Sp \o Acetic

SampleTexts == {TextNone, TextOne, TextTwo, TextThree}

\* one token between a short decoy and a decoy with a URL scheme
TextDecoys == ShortFrag \o Sp \o Acetic \o Sp \o UrlLike

Bracketed == << "C", "C", "[", "O", "-", "]", "C" >>

\* tokens whose only atom letter is N or O, a token with no atom letter, a
\* token with no structural character
OnlyN == << "N", "N", "#", "N", "N", "N" >>

OnlyO == << "O", "(", "O", ")", "O", "O" >>

NoAtom == << "c", "c", "=", "c", "c", "c", "1" >>

NoStructure == << "C", "C", "C", "C", "O", "N", "C" >>

TextAtoms ==
  OnlyN \o Sp \o NoAtom \o Sp \o Bracketed \o Sp \o NoStructure \o Sp
    \o OnlyO

\* the characters of the exhaustive inputs: the letters of "http", an atom
\* letter, and a structural character, which is not a word character and
\* so moves the word boundaries
TextAlphabet == {"h", "t", "p", "C", "="}

\* inputs of the extractor: every text over TextAlphabet of up to
\* MaxTextLen characters, and the longer sample texts
ExtractInputs ==
  UNION {[1..n -> TextAlphabet] : n \in 0..MaxTextLen}
    \cup SampleTexts \cup {TextDecoys, TextAtoms}

\* what askClaude can settle with: a thrown error, a response whose content
\* array is empty, or a response whose first content block carries text
CompletionOutcomes == {"error", "nocontent", "text"}

(***************************************************************************)
(* The simulation service (simulation.js.bak)                              *)
(***************************************************************************)
\* what the Python subprocess can do: print a result object and exit 0,
\* print an object with an "error" key and exit 0, print text that is not
\* JSON and exit 0, or exit with a non-zero code
ScriptOutcomes == {"valid", "invalid", "garbage", "crash"}

\* a call from the AI router can also fail to reach the service at all
CallOutcomes == ScriptOutcomes \cup {"unreachable"}

\* the prediction categories of an ADMET reply
Categories == {"absorption", "metabolism", "toxicity"}

\* the category whose prediction errors inside the script
FailingCategory == "toxicity"

\* what an ADMET call can meet: a complete result, a result object that
\* lacks the value of the failing category (exit code 0, no "error" key), an
\* object with an "error" key, a non-zero exit code, or no service at all
AdmetOutcomes == {"valid", "partial", "invalid", "crash", "unreachable"}

\* the keys of the predictions carried by a reply payload
PredictionKeys(data) ==
  IF data = "valid" THEN Categories
  ELSE IF data = "partial" THEN Categories \ {FailingCategory}
  ELSE {}

\* the file defines the helper and the /properties and /admet routes twice
Variants == {"runRDKitScript", "callRDKitScript"}

runRDKitScript(out) ==
  IF out = "crash" THEN [state |-> "rejected", value |-> "exit"]
  ELSE [state |-> "resolved", value |-> out]

callRDKitScript(out) ==
  IF out = "crash" THEN [state |-> "rejected", value |-> "exit"]
  ELSE IF out = "garbage" THEN [state |-> "rejected", value |-> "parse"]
  ELSE [state |-> "resolved", value |-> out]

\* result.error is truthy: the parsed output is an object with an error key
HasErrorKey(value) == value = "invalid"

\* HTTP reply of a route: status, whether the body has a truthy top-level
\* "error", and the payload.  Status 0 stands for no reply at all
\* (connection refused)
NoReply == [status |-> 0, dataError |-> TRUE, data |-> "none"]

ErrorReply(st) == [status |-> st, dataError |-> TRUE, data |-> "none"]

\* router.post('/properties') and router.post('/admet'), first definitions;
\* writeOk: whether the route's own fs.writeFileSync of the result succeeds
RunVariantRoute(out, writeOk) ==
  LET p == runRDKitScript(out)
  IN  IF p.state = "rejected" THEN ErrorReply(500)
      ELSE IF ~writeOk THEN ErrorReply(500)
      ELSE [status |-> 200, dataError |-> FALSE, data |-> p.value]

\* router.post('/properties') and router.post('/admet'), second definitions
CallVariantRoute(out) ==
  LET p == callRDKitScript(out)
  IN  IF p.state = "rejected" THEN ErrorReply(500)
      ELSE IF HasErrorKey(p.value) THEN ErrorReply(400)
      ELSE [status |-> 200, dataError |-> FALSE, data |-> p.value]

SimulationRoute(v, out, writeOk) ==
  IF out = "unreachable" THEN NoReply
  ELSE IF v = "runRDKitScript" THEN RunVariantRoute(out, writeOk)
  ELSE CallVariantRoute(out)

\* axios rejects when there is no reply or the status is not 2xx
AxiosThrows(reply) == reply.status # 200

(***************************************************************************)
(* State                                                                   *)
(***************************************************************************)
VARIABLES
  variant,            \* which definitions of the simulation routes are live
  pc,                 \* where the request handler is suspended
  op,                 \* "generate" or "optimize"
  body,               \* req.body
  requestId,          \* uuidv4() of the request, 0 before it is drawn
  nextId,             \* source of fresh uuids
  served,             \* requests started so far
  completion,         \* how askClaude settled
  sourceText,         \* claudeResponse.content[0].text
  smilesCandidates,   \* extractSMILES(sourceText)
  idx,                \* position of the for-of loop in smilesCandidates
  validatedMolecules, \* the array built by processMoleculeDesign
  srcIdx,             \* for each validated molecule, the candidate it is from
  engineLog,          \* one entry per settled validation call
  admet,              \* per validated molecule: state of its ADMET call
  propertiesInfo,     \* optimize: whether current properties were obtained
  response,           \* what res.json / res.status().json sent
  aiStore,            \* files in data/ai_results
  calls,              \* calls issued by the current request, per service
  persist,            \* outcome of the request's fs.writeFileSync
  callLog,            \* what each settled ADMET call got: pairs <<i, result>>
  parked,             \* locals of the other handler invocation in flight
  sim,                \* the simulation service: its result directory, its
                      \* last answer, one subprocess and its promise
  ui                  \* the LiteratureExplorer component: its useState
                      \* cells, the requests in flight, the global notes

\* everything outside the AI router
restVars == << sim, ui >>

\* the state of the AI router
routerVars ==
  << variant, pc, op, body, requestId, nextId, served, completion,
     sourceText, smilesCandidates, idx, validatedMolecules, srcIdx,
     engineLog, admet, propertiesInfo, response, aiStore, calls, persist,
     callLog, parked >>

vars ==
  << variant, pc, op, body, requestId, nextId, served, completion,
     sourceText, smilesCandidates, idx, validatedMolecules, srcIdx,
     engineLog, admet, propertiesInfo, response, aiStore, calls, persist,
     callLog, parked, sim, ui >>

NoResponse ==
  [status |-> 0, error |-> "", requestId |-> 0, molecules |-> << >>,
   optimizedMolecules |-> << >>]

Failure(st, msg) == [NoResponse EXCEPT !.status = st, !.error = msg]

NoCalls == [claude |-> 0, properties |-> 0, admet |-> 0]

ErrRequirements == "Molecule requirements are required"

ErrSmiles == "SMILES string is required"

ErrTarget == "Target property to optimize is required"

ErrClaude == "Error calling Claude API"

ErrNoSmiles ==
  "Failed to process molecule design: No valid SMILES structures found in Claude's response"

ErrNoContent == "Failed to process molecule design: TypeError"

ErrTypeError == "TypeError"

ErrWrite == "writeFileSync failed"

\* the locals of a handler invocation that has not been entered
IdleLocals ==
  [pc |-> "idle", op |-> "none",
   body |-> [requirements |-> "", smiles |-> << >>, targetProperty |-> ""],
   requestId |-> 0, served |-> 0, completion |-> "none",
   sourceText |-> << >>, smilesCandidates |-> << >>, idx |-> 0,
   validatedMolecules |-> << >>, srcIdx |-> << >>, engineLog |-> << >>,
   admet |-> << >>, propertiesInfo |-> FALSE, response |-> NoResponse,
   calls |-> NoCalls, persist |-> "none", callLog |-> {}]

\* no second invocation: the server handles one request at a time
NoInvocation == [IdleLocals EXCEPT !.pc = "off"]

\* no answer sent by a simulation route yet
NoSimResponse == [op |-> "none", status |-> 0, id |-> 0, data |-> "none"]

\* a promise whose executor has called neither resolve nor reject
PendingPromise ==
  [state |-> "pending", value |-> [kind |-> "none", text |-> << >>],
   settles |-> 0]

\* the simulation service after start-up: an empty result directory, no
\* subprocess
SimAtRest ==
  [store |-> {},                \* files in data/simulation_results
   response |-> NoSimResponse,  \* what the route sent
   nextId |-> 1,                \* source of fresh uuids
   returned |-> {},             \* ids handed out by successful operations
   firstStored |-> {},          \* per file name, its first content
   enriched |-> << >>,          \* enrichments of one structure, in order
   child |-> "none",            \* "running" until close, then "closed"
   code |-> 0,                  \* exit code passed to the close listener
   resultData |-> << >>,        \* stdout collected by the data listener
   errorData |-> << >>,         \* stderr collected by the data listener
   promise |-> PendingPromise]

\* the fields a handler can be asked to leave alone, as they are before it
\* runs
Frame(u) ==
  [loading |-> u.loading, articles |-> u.articles,
   totalResults |-> u.totalResults, currentPage |-> u.currentPage,
   selectedArticle |-> u.selectedArticle, error |-> u.error,
   searches |-> u.searches, issued |-> u.issued,
   analyses |-> u.analyses, notes |-> Len(u.globalNotes)]

\* the first render, before any handler has run
FirstRender ==
  [loading |-> FALSE, articles |-> << >>, totalResults |-> 0,
   currentPage |-> "1", selectedArticle |-> "null", error |-> "null",
   searches |-> {}, issued |-> 0, analyses |-> {}, notes |-> 0]

\* no search request sent yet
NoSearch ==
  [state |-> "none", articles |-> << >>, totalResults |-> 0,
   error |-> "null"]

\* no handler of the component has run
NoEvent ==
  [handler |-> "none", query |-> << >>, outcome |-> "none", id |-> 0,
   before |-> FirstRender]

\* the component as first rendered: the initial values of its useState
\* cells, nothing in flight
UiAtRest ==
  [searchQuery |-> << >>,
   loading |-> FALSE,
   articles |-> << >>,
   selectedArticle |-> "null",
   error |-> "null",
   totalResults |-> 0,
   currentPage |-> "1",
   analysisLoading |-> FALSE,
   snackbarOpen |-> FALSE,
   snackbarMessage |-> "",
   globalNotes |-> << >>,       \* notes added through addGlobalNote
   searches |-> {},             \* search requests in flight
   analyses |-> {},             \* analysis requests in flight
   issued |-> 0,                \* search requests sent so far
   analysed |-> 0,              \* analysis requests sent so far
   latest |-> NoSearch,         \* what the newest search request brought
   lastEvent |-> NoEvent]       \* the handler that ran last

Init ==
  /\ variant \in Variants
  /\ pc = "idle"
  /\ op = "none"
  /\ body = [requirements |-> "", smiles |-> << >>, targetProperty |-> ""]
  /\ requestId = 0
  /\ nextId = 1
  /\ served = 0
  /\ completion = "none"
  /\ sourceText = << >>
  /\ smilesCandidates = << >>
  /\ idx = 0
  /\ validatedMolecules = << >>
  /\ srcIdx = << >>
  /\ engineLog = << >>
  /\ admet = << >>
  /\ propertiesInfo = FALSE
  /\ response = NoResponse
  /\ aiStore = {}
  /\ calls = NoCalls
  /\ persist = "none"
  /\ callLog = {}
  /\ parked = NoInvocation
  /\ sim = SimAtRest
  /\ ui = UiAtRest

\* a new request starts with fresh locals; the stores and the id source stay
FreshLocals ==
  /\ completion' = "none"
  /\ sourceText' = << >>
  /\ smilesCandidates' = << >>
  /\ idx' = 0
  /\ validatedMolecules' = << >>
  /\ srcIdx' = << >>
  /\ engineLog' = << >>
  /\ admet' = << >>
  /\ propertiesInfo' = FALSE
  /\ persist' = "none"
  /\ callLog' = {}

CanStart == pc \in {"idle", "done"} /\ served < MaxRequests

(***************************************************************************)
(* Pieces of the handlers                                                  *)
(***************************************************************************)
\* res.status(400).json({ error })
BadRequest(msg) == Failure(400, msg)

\* a catch block that swallows the error and answers with an empty success
ServerErrorSwallowed(msg) == [NoResponse EXCEPT !.status = 200]

\* the handlers' catch block: res.status(500).json({ error: error.message })
ServerError(msg) == Failure(500, msg)

\* if (!requirements)
MissingRequirements(b) == b.requirements = ""

\* if (!smiles)
MissingSmiles(b) == b.smiles = << >>

\* the target-property check left out
MissingTargetUnchecked(b) == FALSE

\* if (!targetProperty)
MissingTarget(b) == b.targetProperty = ""

\* the empty-extraction check left out
NoCandidatesUnchecked(cands) == FALSE

\* if (smilesCandidates.length === 0) throw
NoCandidates(cands) == Len(cands) = 0

\* the name numbered from zero
MoleculeNameZeroBased(vm) == << "Claude Generated Molecule", Len(vm) >>

\* the name without the prefix
MoleculeNameUnprefixed(vm) == << "Generated Molecule", Len(vm) + 1 >>

\* `Claude Generated Molecule ${validatedMolecules.length + 1}`: the fixed
\* text and the number that the template string joins
MoleculeName(vm) == << "Claude Generated Molecule", Len(vm) + 1 >>

\* a notation that already has a record is not pushed again
PushValidatedDedup(vm, smiles, reply) ==
  IF /\ ~AxiosThrows(reply)
     /\ ~reply.dataError
     /\ ~\E j \in 1..Len(vm) : vm[j].smiles = smiles
  THEN Append(vm, [smiles |-> smiles,
                   name |-> MoleculeName(vm),
                   properties |-> reply.data,
                   admet |-> "absent"])
  ELSE vm

\* the body of the for-of loop: push when the call returned and the reply
\* has no "error", otherwise (also when the call threw) keep the array
PushValidated(vm, smiles, reply) ==
  IF ~AxiosThrows(reply) /\ ~reply.dataError
  THEN Append(vm, [smiles |-> smiles,
                   name |-> MoleculeName(vm),
                   properties |-> reply.data,
                   admet |-> "absent"])
  ELSE vm

\* the try/catch around the loop instead of inside it: the first call that
\* throws ends the loop
LoopDoneOnThrow(i, cands, reply) == i >= Len(cands) \/ AxiosThrows(reply)

\* the loop ends after the last candidate, whatever the replies were
LoopDone(i, cands, reply) == i >= Len(cands)

\* a failed prediction replaced by a default value
EnhancedMoleculeDefault(molecule, a) ==
  [molecule EXCEPT !.admet = IF a = "failed" THEN "default" ELSE a]

\* a reply that lacks a category treated like a failed call
EnhancedMoleculeCompleteOnly(molecule, a) ==
  IF a \in {"failed", "partial"} THEN molecule
  ELSE [molecule EXCEPT !.admet = a]

\* what one element of the Promise.all array resolves to
EnhancedMolecule(molecule, a) ==
  IF a = "failed" THEN molecule ELSE [molecule EXCEPT !.admet = a]

\* results collected in the order of arrival: the result goes into the first
\* slot that is still free
SettleAtFirstFree(a, i, result) ==
  LET free == {k \in 1..Len(a) : a[k] = "pending"}
      first == CHOOSE k \in free : \A m \in free : k <= m
  IN  [a EXCEPT ![first] = result]

\* Promise.all keeps the result of the i-th promise at index i
SettleAt(a, i, result) == [a EXCEPT ![i] = result]

\* res.json({ requestId, molecules: enhancedMolecules, ... })
GenerateResponse(id, vm, a) ==
  [NoResponse EXCEPT
     !.status = 200, !.requestId = id,
     !.molecules = [i \in 1..Len(vm) |-> EnhancedMolecule(vm[i], a[i])]]

\* only the first extracted token returned
OptimizeResponseFirstOnly(id, extracted) ==
  [NoResponse EXCEPT
     !.status = 200, !.requestId = id,
     !.optimizedMolecules = SubSeq(extracted, 1, 1)]

\* res.json({ requestId, optimization, optimizedMolecules: extractedSMILES })
OptimizeResponse(id, extracted) ==
  [NoResponse EXCEPT
     !.status = 200, !.requestId = id, !.optimizedMolecules = extracted]

\* the file written from the enhanced molecules instead of the validated ones
GenerateFileEnhanced(id, vm) ==
  [prefix |-> "", id |-> id,
   generatedMolecules |-> [i \in 1..Len(vm) |-> [vm[i] EXCEPT !.admet = "valid"]],
   extractedSMILES |-> << >>]

\* JSON written to ai_results/<requestId>.json
GenerateFile(id, vm) ==
  [prefix |-> "", id |-> id, generatedMolecules |-> vm,
   extractedSMILES |-> << >>]

\* JSON written to ai_results/optimization_<requestId>.json
OptimizeFile(id, extracted) ==
  [prefix |-> "optimization_", id |-> id, generatedMolecules |-> << >>,
   extractedSMILES |-> extracted]

\* the handler ends with a failure response
Fail(resp) ==
  /\ response' = resp
  /\ pc' = "done"

\* generate, from the return of processMoleculeDesign to the next await:
\* save the result, then issue one ADMET call per molecule
SaveAndEnrich(vm, writeOk) ==
  IF writeOk
  THEN /\ persist' = "ok"
       /\ aiStore' = aiStore \cup {GenerateFile(requestId, vm)}
       /\ admet' = [i \in 1..Len(vm) |-> "pending"]
       /\ calls' = [calls EXCEPT !.admet = Len(vm)]
       /\ pc' = "enriching"
       /\ UNCHANGED response
  ELSE /\ persist' = "failed"
       /\ Fail(ServerError(ErrWrite))
       /\ UNCHANGED << aiStore, admet, calls >>

(***************************************************************************)
(* router.post('/generate-molecule')                                       *)
(***************************************************************************)
GenerateRequest(requirements) ==
  /\ UNCHANGED restVars
  /\ CanStart
  /\ served' = served + 1
  /\ op' = "generate"
  /\ body' = [requirements |-> requirements, smiles |-> << >>,
              targetProperty |-> ""]
  /\ FreshLocals
  /\ IF MissingRequirements(body')
     THEN /\ Fail(BadRequest(ErrRequirements))
          /\ requestId' = 0
          /\ calls' = NoCalls
          /\ UNCHANGED nextId
     ELSE /\ requestId' = nextId
          /\ nextId' = nextId + 1
          /\ calls' = [NoCalls EXCEPT !.claude = 1]
          /\ response' = NoResponse
          /\ pc' = "askClaude"
  /\ UNCHANGED << variant, parked, aiStore >>

\* askClaude settles; processMoleculeDesign runs up to its first await
GenerateClaudeReply(outcome, text, writeOk) ==
  /\ UNCHANGED restVars
  /\ pc = "askClaude"
  /\ op = "generate"
  /\ completion' = outcome
  /\ UNCHANGED << variant, parked, callLog, op, body, requestId, nextId,
                  served,
                  validatedMolecules, srcIdx, engineLog, propertiesInfo >>
  /\ IF outcome = "error"
     THEN /\ Fail(ServerError(ErrClaude))
          /\ UNCHANGED << sourceText, smilesCandidates, idx, admet, aiStore,
                          calls, persist >>
     ELSE IF outcome = "nocontent"
     THEN /\ Fail(ServerError(ErrNoContent))
          /\ UNCHANGED << sourceText, smilesCandidates, idx, admet, aiStore,
                          calls, persist >>
     ELSE /\ sourceText' = text
          /\ smilesCandidates' = extractSMILES(text)
          /\ IF NoCandidates(smilesCandidates')
             THEN /\ Fail(ServerError(ErrNoSmiles))
                  /\ UNCHANGED << idx, admet, aiStore, calls, persist >>
             ELSE IF smilesCandidates' = << >>
             THEN /\ SaveAndEnrich(<< >>, writeOk)
                  /\ UNCHANGED idx
             ELSE /\ idx' = 1
                  /\ calls' = [calls EXCEPT !.properties = 1]
                  /\ pc' = "validating"
                  /\ UNCHANGED << admet, aiStore, persist, response >>

\* the axios.post of the loop settles for candidate idx
ValidationReply(out, simWriteOk, writeOk) ==
  /\ UNCHANGED restVars
  /\ pc = "validating"
  /\ LET smiles == smilesCandidates[idx]
         reply == SimulationRoute(variant, out, simWriteOk)
         vm == PushValidated(validatedMolecules, smiles, reply)
     IN  /\ engineLog' = Append(engineLog,
                           [token |-> idx, script |-> out,
                            status |-> reply.status])
         /\ validatedMolecules' = vm
         /\ srcIdx' = IF Len(vm) > Len(validatedMolecules)
                      THEN Append(srcIdx, idx) ELSE srcIdx
         /\ IF LoopDone(idx, smilesCandidates, reply)
            THEN /\ SaveAndEnrich(vm, writeOk)
                 /\ UNCHANGED idx
            ELSE /\ idx' = idx + 1
                 /\ calls' = [calls EXCEPT !.properties = @ + 1]
                 /\ UNCHANGED << pc, admet, aiStore, persist, response >>
  /\ UNCHANGED << variant, parked, callLog, op, body, requestId, nextId,
                  served, completion,
                  sourceText, smilesCandidates, propertiesInfo >>

\* the ADMET call of molecule i settles (in any order)
AdmetReply(i, out, simWriteOk) ==
  /\ UNCHANGED restVars
  /\ pc = "enriching"
  /\ i \in 1..Len(admet)
  /\ admet[i] = "pending"
  /\ LET reply == SimulationRoute(variant, out, simWriteOk)
         result == IF AxiosThrows(reply) THEN "failed" ELSE reply.data
     IN  /\ admet' = SettleAt(admet, i, result)
         /\ callLog' = callLog \cup {<< i, result >>}
  /\ UNCHANGED << variant, parked, pc, op, body, requestId, nextId, served,
                  completion, sourceText, smilesCandidates, idx,
                  validatedMolecules, srcIdx, engineLog, propertiesInfo,
                  response, aiStore, calls, persist >>

\* the response built without waiting for the calls still in flight
GenerateRespondEarly ==
  /\ UNCHANGED restVars
  /\ pc = "enriching"
  /\ response' = GenerateResponse(requestId, validatedMolecules, admet)
  /\ pc' = "done"
  /\ UNCHANGED << variant, parked, callLog, op, body, requestId, nextId,
                  served, completion,
                  sourceText, smilesCandidates, idx, validatedMolecules,
                  srcIdx, engineLog, admet, propertiesInfo, aiStore, calls,
                  persist >>

\* Promise.all resolves once every call has settled
GenerateRespond ==
  /\ UNCHANGED restVars
  /\ pc = "enriching"
  /\ \A i \in 1..Len(admet) : admet[i] # "pending"
  /\ response' = GenerateResponse(requestId, validatedMolecules, admet)
  /\ pc' = "done"
  /\ UNCHANGED << variant, parked, callLog, op, body, requestId, nextId,
                  served, completion,
                  sourceText, smilesCandidates, idx, validatedMolecules,
                  srcIdx, engineLog, admet, propertiesInfo, aiStore, calls,
                  persist >>

(***************************************************************************)
(* router.post('/optimize-molecule')                                       *)
(***************************************************************************)
OptimizeRequest(smiles, targetProperty) ==
  /\ UNCHANGED restVars
  /\ CanStart
  /\ served' = served + 1
  /\ op' = "optimize"
  /\ body' = [requirements |-> "", smiles |-> smiles,
              targetProperty |-> targetProperty]
  /\ FreshLocals
  /\ IF MissingSmiles(body')
     THEN /\ Fail(BadRequest(ErrSmiles))
          /\ requestId' = 0
          /\ calls' = NoCalls
          /\ UNCHANGED nextId
     ELSE IF MissingTarget(body')
     THEN /\ Fail(BadRequest(ErrTarget))
          /\ requestId' = 0
          /\ calls' = NoCalls
          /\ UNCHANGED nextId
     ELSE /\ requestId' = nextId
          /\ nextId' = nextId + 1
          /\ calls' = [NoCalls EXCEPT !.properties = 1]
          /\ response' = NoResponse
          /\ pc' = "optProps"
  /\ UNCHANGED << variant, parked, aiStore >>

\* the properties lookup of the input notation settles; askClaude is called
OptimizePropsReply(out, simWriteOk) ==
  /\ UNCHANGED restVars
  /\ pc = "optProps"
  /\ LET reply == SimulationRoute(variant, out, simWriteOk)
     IN  /\ propertiesInfo' = (~AxiosThrows(reply) /\ ~reply.dataError)
  /\ calls' = [calls EXCEPT !.claude = 1]
  /\ pc' = "askClaude"
  /\ UNCHANGED << variant, parked, callLog, op, body, requestId, nextId,
                  served, completion,
                  sourceText, smilesCandidates, idx, validatedMolecules,
                  srcIdx, engineLog, admet, response, aiStore, persist >>

\* askClaude settles; extract, save, respond
OptimizeClaudeReply(outcome, text, writeOk) ==
  /\ UNCHANGED restVars
  /\ pc = "askClaude"
  /\ op = "optimize"
  /\ completion' = outcome
  /\ UNCHANGED << variant, parked, callLog, op, body, requestId, nextId,
                  served,
                  idx, validatedMolecules, srcIdx, engineLog, admet,
                  propertiesInfo, calls >>
  /\ IF outcome = "error"
     THEN /\ Fail(ServerError(ErrClaude))
          /\ UNCHANGED << sourceText, smilesCandidates, aiStore, persist >>
     ELSE IF outcome = "nocontent"
     THEN /\ Fail(ServerError(ErrTypeError))
          /\ UNCHANGED << sourceText, smilesCandidates, aiStore, persist >>
     ELSE /\ sourceText' = text
          /\ smilesCandidates' = extractSMILES(text)
          /\ IF writeOk
             THEN /\ persist' = "ok"
                  /\ aiStore' = aiStore
                       \cup {OptimizeFile(requestId, smilesCandidates')}
                  /\ response' = OptimizeResponse(requestId, smilesCandidates')
                  /\ pc' = "done"
             ELSE /\ persist' = "failed"
                  /\ Fail(ServerError(ErrWrite))
                  /\ UNCHANGED aiStore

(***************************************************************************)
(* Specification                                                           *)
(***************************************************************************)
Next ==
  \/ \E r \in {"", "selective DAT inhibitor"} : GenerateRequest(r)
  \/ \E o \in CompletionOutcomes, t \in SampleTexts, w \in BOOLEAN :
       GenerateClaudeReply(o, t, w)
  \/ \E o \in CallOutcomes, sw \in BOOLEAN, w \in BOOLEAN :
       ValidationReply(o, sw, w)
  \/ \E i \in 1..Len(admet), o \in AdmetOutcomes : AdmetReply(i, o, TRUE)
  \/ GenerateRespond
  \/ \E s \in {<< >>, Acetic}, t \in {"", "logP"} : OptimizeRequest(s, t)
  \/ \E o \in CallOutcomes, sw \in BOOLEAN : OptimizePropsReply(o, sw)
  \/ \E o \in CompletionOutcomes, t \in SampleTexts, w \in BOOLEAN :
       OptimizeClaudeReply(o, t, w)

Spec == Init /\ [][Next]_vars

(***************************************************************************)
(* extractSMILES on its own: one call on one input text                    *)
(***************************************************************************)
InitExtract ==
  /\ variant = "runRDKitScript"
  /\ pc = "extract"
  /\ op = "none"
  /\ body = [requirements |-> "", smiles |-> << >>, targetProperty |-> ""]
  /\ requestId = 0
  /\ nextId = 1
  /\ served = 0
  /\ completion = "text"
  /\ sourceText \in ExtractInputs
  /\ smilesCandidates = << >>
  /\ idx = 0
  /\ validatedMolecules = << >>
  /\ srcIdx = << >>
  /\ engineLog = << >>
  /\ admet = << >>
  /\ propertiesInfo = FALSE
  /\ response = NoResponse
  /\ aiStore = {}
  /\ calls = NoCalls
  /\ persist = "none"
  /\ callLog = {}
  /\ parked = NoInvocation
  /\ sim = SimAtRest
  /\ ui = UiAtRest

\* the call returns its tokens or throws
Extract ==
  /\ UNCHANGED restVars
  /\ pc = "extract"
  /\ LET r == ExtractCall(sourceText)
     IN  /\ smilesCandidates' = r.tokens
         /\ pc' = IF r.raised THEN "raised" ELSE "extracted"
  /\ UNCHANGED << variant, parked, callLog, op, body, requestId, nextId,
                  served, completion, sourceText, idx, validatedMolecules,
                  srcIdx, engineLog, admet, propertiesInfo, response,
                  aiStore, calls, persist >>

NextExtract == Extract

SpecExtract == InitExtract /\ [][NextExtract]_vars

(***************************************************************************)
(* Two invocations of the generate handler in flight at once.  Node runs   *)
(* one of them at a time and turns to the other between two steps; each    *)
(* invocation has its own locals, the result store and the id source are   *)
(* shared.                                                                 *)
(***************************************************************************)
\* the locals of the invocation that is running
Current ==
  [pc |-> pc,
   op |-> op,
   body |-> body,
   requestId |-> requestId,
   served |-> served,
   completion |-> completion,
   sourceText |-> sourceText,
   smilesCandidates |-> smilesCandidates,
   idx |-> idx,
   validatedMolecules |-> validatedMolecules,
   srcIdx |-> srcIdx,
   engineLog |-> engineLog,
   admet |-> admet,
   propertiesInfo |-> propertiesInfo,
   response |-> response,
   calls |-> calls,
   persist |-> persist,
   callLog |-> callLog]

\* the array declared once at module level: every invocation pushes into
\* the same array
ModuleLevelArray(ctx, shared) == shared

\* const validatedMolecules = [] inside processMoleculeDesign: the array an
\* invocation sees is the one it created
OwnArray(ctx, shared) == ctx.validatedMolecules

\* the event loop turns to the other invocation
Switch ==
  /\ UNCHANGED restVars
  /\ parked.pc # "off"
  /\ parked' = Current
  /\ pc' = parked.pc
  /\ op' = parked.op
  /\ body' = parked.body
  /\ requestId' = parked.requestId
  /\ served' = parked.served
  /\ completion' = parked.completion
  /\ sourceText' = parked.sourceText
  /\ smilesCandidates' = parked.smilesCandidates
  /\ idx' = parked.idx
  /\ srcIdx' = parked.srcIdx
  /\ engineLog' = parked.engineLog
  /\ admet' = parked.admet
  /\ propertiesInfo' = parked.propertiesInfo
  /\ response' = parked.response
  /\ calls' = parked.calls
  /\ persist' = parked.persist
  /\ callLog' = parked.callLog
  /\ validatedMolecules' = OwnArray(parked, validatedMolecules)
  /\ UNCHANGED << variant, nextId, aiStore >>

InitConcurrent ==
  /\ variant = "runRDKitScript"
  /\ pc = "idle"
  /\ op = "none"
  /\ body = [requirements |-> "", smiles |-> << >>, targetProperty |-> ""]
  /\ requestId = 0
  /\ nextId = 1
  /\ served = 0
  /\ completion = "none"
  /\ sourceText = << >>
  /\ smilesCandidates = << >>
  /\ idx = 0
  /\ validatedMolecules = << >>
  /\ srcIdx = << >>
  /\ engineLog = << >>
  /\ admet = << >>
  /\ propertiesInfo = FALSE
  /\ response = NoResponse
  /\ aiStore = {}
  /\ calls = NoCalls
  /\ persist = "none"
  /\ callLog = {}
  /\ parked = IdleLocals
  /\ sim = SimAtRest
  /\ ui = UiAtRest

NextConcurrent ==
  \/ GenerateRequest("selective DAT inhibitor")
  \/ \E t \in {TextOne, TextTwo} : GenerateClaudeReply("text", t, TRUE)
  \/ \E o \in {"valid", "crash"} : ValidationReply(o, TRUE, TRUE)
  \/ \E i \in 1..Len(admet), o \in {"valid", "crash"} :
       AdmetReply(i, o, TRUE)
  \/ GenerateRespond
  \/ Switch

SpecConcurrent == InitConcurrent /\ [][NextConcurrent]_vars

(***************************************************************************)
(* The routes of the simulation service that keep results                  *)
(* (simulation.js.bak)                                                     *)
(***************************************************************************)
\* most uuids the routes draw for direct requests in one run
MaxSimIds == 1

\* a file name is the text before the uuid and the uuid; ".json" is left out
PropertiesName(id) == << "properties_", id >>

AdmetName(id) == << "admet_", id >>

SimulationName(id) == << "", id >>

\* the :id of GET /results/:id is any text the caller sends: a uuid that a
\* route returned, or "properties_" or "admet_" followed by one
LookupTexts ==
  {<< prefix, id >> : prefix \in {"", "properties_", "admet_"},
                      id \in 1..(MaxSimIds + 1)}

\* path.join(resultsDir, `${id}.json`): the file name is the text itself
ResultsFile(text) == text

\* fs.writeFileSync creates the file or replaces its content
WriteFile(store, name, data) ==
  {f \in store : f.name # name} \cup {[name |-> name, data |-> data]}

\* fs.existsSync
FileExists(store, name) == \E f \in store : f.name = name

\* JSON.parse(fs.readFileSync(...))
ReadFile(store, name) == (CHOOSE f \in store : f.name = name).data

\* the first content written under each name
Remember(first, name, data) ==
  IF \E f \in first : f.name = name THEN first
  ELSE first \cup {[name |-> name, data |-> data]}

SimFailure(st) == [op |-> "post", status |-> st, id |-> 0, data |-> "error"]

\* the body of the reply with the id left out of it
ResultBodyFixedId(id, value) == [id |-> 0, payload |-> value]

\* res.json({ id: resultId, properties }) and res.json({ id: resultId,
\* admet: admetResults }): the uuid and what the script printed
ResultBody(id, value) == [id |-> id, payload |-> value]

\* the first /properties and /admet routes from the await on: the script
\* result is saved under prefix + uuid and the uuid is returned
SaveAndReturn(name, value, writeOk) ==
  LET id == sim.nextId
      data == [id |-> id, content |-> value]
  IN  IF writeOk
      THEN [sim EXCEPT
              !.nextId = id + 1,
              !.store = WriteFile(sim.store, name, data),
              !.firstStored = Remember(sim.firstStored, name, data),
              !.returned = @ \cup {[id |-> id, data |-> data]},
              !.response = [op |-> "post", status |-> 200, id |-> id,
                            data |-> ResultBody(id, value)]]
      ELSE [sim EXCEPT !.nextId = id + 1, !.response = SimFailure(500)]

\* POST /properties and POST /admet, first definitions (runRDKitScript);
\* the second definitions (callRDKitScript) save nothing and return no id
PostScriptRoute(kind, smiles, out, writeOk) ==
  /\ sim.nextId <= MaxSimIds
  /\ UNCHANGED << routerVars, ui >>
  /\ IF smiles = << >>
     THEN sim' = [sim EXCEPT !.response = SimFailure(400)]
     ELSE IF variant = "runRDKitScript"
     THEN LET settled == runRDKitScript(out)
              id == sim.nextId
              name == IF kind = "properties" THEN PropertiesName(id)
                      ELSE AdmetName(id)
          IN  IF settled.state = "rejected"
              THEN sim' = [sim EXCEPT !.response = SimFailure(500)]
              ELSE sim' = SaveAndReturn(name, settled.value, writeOk)
     ELSE LET settled == callRDKitScript(out)
          IN  IF settled.state = "rejected"
              THEN sim' = [sim EXCEPT !.response = SimFailure(500)]
              ELSE IF HasErrorKey(settled.value)
              THEN sim' = [sim EXCEPT !.response = SimFailure(400)]
              ELSE sim' = [sim EXCEPT
                             !.response = [op |-> "post", status |-> 200,
                                           id |-> 0,
                                           data |-> settled.value]]

\* POST /docking (second definition) and POST /molecular-dynamics: the
\* uuid is drawn first, the result is saved under the uuid alone
PostSimulation(kind, present, out, writeOk) ==
  /\ sim.nextId <= MaxSimIds
  /\ UNCHANGED << routerVars, ui >>
  /\ IF ~present
     THEN sim' = [sim EXCEPT !.response = SimFailure(400)]
     ELSE LET id == sim.nextId
              settled == IF kind = "docking" THEN callRDKitScript(out)
                         ELSE [state |-> "resolved", value |-> "mock"]
              data == [id |-> id, content |-> settled.value]
          IN  IF settled.state = "rejected"
              THEN sim' = [sim EXCEPT !.nextId = id + 1,
                                      !.response = SimFailure(500)]
              ELSE IF HasErrorKey(settled.value)
              THEN sim' = [sim EXCEPT !.nextId = id + 1,
                                      !.response = SimFailure(400)]
              ELSE IF ~writeOk
              THEN sim' = [sim EXCEPT !.nextId = id + 1,
                                      !.response = SimFailure(500)]
              ELSE sim' =
                     [sim EXCEPT
                        !.nextId = id + 1,
                        !.store = WriteFile(sim.store, SimulationName(id),
                                            data),
                        !.firstStored =
                           Remember(sim.firstStored, SimulationName(id),
                                    data),
                        !.returned = @ \cup {[id |-> id, data |-> data]},
                        !.response = [op |-> "post", status |-> 200,
                                      id |-> id, data |-> data]]

\* GET /results/:id
GetResults(text) ==
  /\ UNCHANGED << routerVars, ui >>
  /\ IF ~FileExists(sim.store, ResultsFile(text))
     THEN sim' = [sim EXCEPT
                    !.response = [op |-> "results", status |-> 404,
                                  id |-> text, data |-> "error"]]
     ELSE sim' = [sim EXCEPT
                    !.response = [op |-> "results", status |-> 200,
                                  id |-> text,
                                  data |-> ReadFile(sim.store,
                                                    ResultsFile(text))]]

\* POST /results: the body is saved under the id it carries
PostResults(id, writeOk) ==
  /\ UNCHANGED << routerVars, ui >>
  /\ IF id = 0
     THEN sim' = [sim EXCEPT !.response = SimFailure(400)]
     ELSE LET data == [id |-> id, content |-> "client"]
          IN  IF writeOk
              THEN sim' =
                     [sim EXCEPT
                        !.store = WriteFile(sim.store, SimulationName(id),
                                            data),
                        !.firstStored =
                           Remember(sim.firstStored, SimulationName(id),
                                    data),
                        !.response = [op |-> "post", status |-> 200,
                                      id |-> id, data |-> "saved"]]
              ELSE sim' = [sim EXCEPT !.response = SimFailure(500)]

\* the callback of generatedMolecules.map for one validated structure, run
\* against a healthy /admet route: { ...molecule, admet:
\* admetResponse.data }
SampleMolecule ==
  [smiles |-> Acetic, name |-> << "Claude Generated Molecule", 1 >>,
   properties |-> "valid", admet |-> "absent"]

Enrich ==
  /\ Len(sim.enriched) < 2
  /\ UNCHANGED << routerVars, ui >>
  /\ LET id == sim.nextId
         replyData == IF variant = "runRDKitScript"
                      THEN ResultBody(id, "valid") ELSE "valid"
     IN  sim' = [sim EXCEPT
                   !.nextId = IF variant = "runRDKitScript" THEN id + 1
                              ELSE id,
                   !.store =
                      IF variant = "runRDKitScript"
                      THEN WriteFile(sim.store, AdmetName(id),
                                     [id |-> id, content |-> "valid"])
                      ELSE sim.store,
                   !.firstStored =
                      IF variant = "runRDKitScript"
                      THEN Remember(sim.firstStored, AdmetName(id),
                                    [id |-> id, content |-> "valid"])
                      ELSE sim.firstStored,
                   !.enriched =
                      Append(@, [SampleMolecule EXCEPT !.admet = replyData])]

NextStore ==
  \/ \E k \in {"properties", "admet"}, s \in {<< >>, Acetic},
        o \in ScriptOutcomes, w \in BOOLEAN : PostScriptRoute(k, s, o, w)
  \/ \E k \in {"docking", "molecular-dynamics"}, p \in BOOLEAN,
        o \in ScriptOutcomes, w \in BOOLEAN : PostSimulation(k, p, o, w)
  \/ \E t \in LookupTexts : GetResults(t)
  \/ \E id \in 0..(MaxSimIds + 1), w \in BOOLEAN : PostResults(id, w)
  \/ Enrich

SpecStore == Init /\ [][NextStore]_vars

(***************************************************************************)
(* runRDKitScript and callRDKitScript: the subprocess and the promise      *)
(***************************************************************************)
\* most data events of one subprocess
MaxChunks == 3

\* what one data event of stdout can carry
StdoutChunks == {"{", "}", "x", "\n"}

\* what one data event of stderr carries
StderrChunk == "Traceback"

\* the exit codes passed to the close listener; -1 stands for the null of a
\* subprocess ended by a signal
ExitCodes == {0, 1, -1}

\* the text without the white space around it, which JSON.parse skips
StripSpace(text) ==
  LET inked == {i \in 1..Len(text) : text[i] # "\n"}
  IN  IF inked = {} THEN << >>
      ELSE SubSeq(text, CHOOSE i \in inked : \A j \in inked : i <= j,
                        CHOOSE i \in inked : \A j \in inked : j <= i)

\* JSON.parse over the texts of the chunk alphabet: the only JSON value they
\* can spell is the empty object; anything else throws
JsonParse(text) ==
  IF StripSpace(text) = << "{", "}" >>
  THEN [ok |-> TRUE, value |-> [kind |-> "json", text |-> << "{", "}" >>]]
  ELSE [ok |-> FALSE, value |-> [kind |-> "SyntaxError", text |-> text]]

\* resolve and reject: the first call settles the promise, later calls
\* change nothing
Settle(promise, state, value) ==
  IF promise.state = "pending"
  THEN [state |-> state, value |-> value, settles |-> promise.settles + 1]
  ELSE [promise EXCEPT !.settles = @ + 1]

\* new Error(`... ${code}: ${error}`)
ExitError(errorText) == [kind |-> "Error", text |-> errorText]

\* the close listener of runRDKitScript
RunCloseListener(promise, code, result, error) ==
  IF code # 0 THEN Settle(promise, "rejected", ExitError(error))
  ELSE LET parsed == JsonParse(result)
       IN  IF parsed.ok THEN Settle(promise, "fulfilled", parsed.value)
           ELSE Settle(promise, "fulfilled",
                       [kind |-> "text", text |-> result])

\* a close listener that hands unparsable output on as text
CloseListenerRawText(promise, code, resultData, errorData) ==
  IF code # 0 THEN Settle(promise, "rejected", ExitError(errorData))
  ELSE LET parsed == JsonParse(resultData)
       IN  IF parsed.ok THEN Settle(promise, "fulfilled", parsed.value)
           ELSE Settle(promise, "fulfilled",
                       [kind |-> "text", text |-> resultData])

\* the close listener of callRDKitScript
CallCloseListener(promise, code, resultData, errorData) ==
  IF code # 0 THEN Settle(promise, "rejected", ExitError(errorData))
  ELSE LET parsed == JsonParse(resultData)
       IN  IF parsed.ok THEN Settle(promise, "fulfilled", parsed.value)
           ELSE Settle(promise, "rejected", parsed.value)

\* the executor of the promise: spawn('python', ...), empty buffers, the
\* listeners attached
Spawn ==
  /\ sim.child = "none"
  /\ sim' = [sim EXCEPT !.child = "running", !.resultData = << >>,
                        !.errorData = << >>, !.promise = PendingPromise]
  /\ UNCHANGED << routerVars, ui >>

\* pythonProcess.stdout.on('data', ...)
StdoutData(chunk) ==
  /\ sim.child = "running"
  /\ Len(sim.resultData) + Len(sim.errorData) < MaxChunks
  /\ sim' = [sim EXCEPT !.resultData = Append(@, chunk)]
  /\ UNCHANGED << routerVars, ui >>

\* pythonProcess.stderr.on('data', ...)
StderrData ==
  /\ sim.child = "running"
  /\ Len(sim.resultData) + Len(sim.errorData) < MaxChunks
  /\ sim' = [sim EXCEPT !.errorData = Append(@, StderrChunk)]
  /\ UNCHANGED << routerVars, ui >>

\* pythonProcess.on('close', ...): emitted once, after the streams have ended
Close(code) ==
  /\ sim.child = "running"
  /\ sim' = [sim EXCEPT
               !.child = "closed",
               !.code = code,
               !.promise =
                  IF variant = "runRDKitScript"
                  THEN RunCloseListener(@, code, sim.resultData,
                                        sim.errorData)
                  ELSE CallCloseListener(@, code, sim.resultData,
                                         sim.errorData)]
  /\ UNCHANGED << routerVars, ui >>

NextScript ==
  \/ Spawn
  \/ \E chunk \in StdoutChunks : StdoutData(chunk)
  \/ StderrData
  \/ \E code \in ExitCodes : Close(code)

SpecScript == Init /\ [][NextScript]_vars

(***************************************************************************)
(* LiteratureExplorer (LiteratureExplorer.js)                              *)
(***************************************************************************)
\* most search requests sent in one run
MaxSearches == 2

\* most analysis requests sent in one run
MaxAnalyses == 1

\* what the user can have typed into the search field
QueryTexts == {<< >>, <<" ">>, <<" ", "a">>}

\* String.prototype.trim: the text without leading and trailing white space
Trim(q) ==
  LET inked == {i \in 1..Len(q) : q[i] # " "}
  IN  IF inked = {} THEN << >>
      ELSE SubSeq(q, CHOOSE i \in inked : \A j \in inked : i <= j,
                     CHOOSE i \in inked : \A j \in inked : j <= i)

\* the test without the trim
EmptyQueryUntrimmed(q) == q = << >>

\* !searchQuery.trim()
EmptyQuery(q) == Trim(q) = << >>

ErrEmptyQuery == "Please enter a search query."

ErrSearch == "Failed to search literature. Please try again later."

ErrServer == "server error message"

ErrNoAnalysis == "AI analysis did not return content."

ErrDetails == "analysis error details"

ErrNetwork == "Network Error"

NoteAdded == "AI analysis added to global notes."

\* the page of articles the literature service has for a query
SearchResults(query) ==
  IF Trim(query) = <<"a">> THEN << "a1", "a2" >> ELSE << >>

\* the total the service reports with them
SearchTotal(query) == IF Trim(query) = <<"a">> THEN 12 ELSE 0

\* how a search call can end: data with results, data without a results
\* field, an error reply with a message, a failure without a reply
SearchOutcomes == {"results", "noResults", "serverError", "networkError"}

\* how an analysis call can end: data with analysis text, data whose
\* analysis is empty, an error reply with details, a failure without reply
AnalysisOutcomes == {"content", "empty", "details", "networkError"}

\* handleSearch called by the button gets the click event as its page, by the
\* Enter key the default page
PageOf(source) == IF source = "button" THEN "event" ELSE "1"

\* a handler that ran, with the state it found
Event(handler, query, outcome, id) ==
  [handler |-> handler, query |-> query, outcome |-> outcome, id |-> id,
   before |-> Frame(ui)]

\* a handler that ran and sets one cell only
Ran(handler) == [NoEvent EXCEPT !.handler = handler]

\* handleSearchChange
HandleSearchChange(q) ==
  /\ q # ui.searchQuery
  /\ ui' = [ui EXCEPT !.searchQuery = q,
                      !.lastEvent = Ran("handleSearchChange")]
  /\ UNCHANGED << routerVars, sim >>

\* handleSearch up to its await: called from the Search button (disabled
\* while loading) or from handleKeyPress on Enter
HandleSearch(source) ==
  /\ source = "button" => ~ui.loading
  /\ IF EmptyQuery(ui.searchQuery)
     THEN ui' = [ui EXCEPT
                   !.error = ErrEmptyQuery,
                   !.lastEvent =
                     Event("handleSearch", ui.searchQuery, "returned", 0)]
     ELSE /\ ui.issued < MaxSearches
          /\ ui' = [ui EXCEPT
                      !.loading = TRUE,
                      !.selectedArticle = "null",
                      !.error = "null",
                      !.currentPage = PageOf(source),
                      !.issued = @ + 1,
                      !.latest = [NoSearch EXCEPT !.state = "pending"],
                      !.searches = @ \cup {[id |-> ui.issued + 1,
                                            query |-> ui.searchQuery,
                                            page |-> PageOf(source)]},
                      !.lastEvent =
                        Event("handleSearch", ui.searchQuery, "sent",
                              ui.issued + 1)]
  /\ UNCHANGED << routerVars, sim >>

\* what the try and catch blocks of handleSearch set for a settled call
SearchEffect(request, outcome) ==
  IF outcome = "results"
  THEN [articles |-> SearchResults(request.query),
        totalResults |-> SearchTotal(request.query), error |-> "kept"]
  ELSE IF outcome = "noResults"
  THEN [articles |-> << >>, totalResults |-> 0, error |-> "kept"]
  ELSE [articles |-> << >>, totalResults |-> 0,
        error |-> IF outcome = "serverError" THEN ErrServer ELSE ErrSearch]

\* finally { setLoading(false) }
ClearLoading(request, u) == FALSE

\* handleSearch from its await on: the call of one request settles
SearchReply(request, outcome) ==
  /\ request \in ui.searches
  /\ LET effect == SearchEffect(request, outcome)
         shownError == IF effect.error = "kept" THEN ui.error
                       ELSE effect.error
     IN  ui' = [ui EXCEPT
                  !.articles = effect.articles,
                  !.totalResults = effect.totalResults,
                  !.error = shownError,
                  !.loading = ClearLoading(request, ui),
                  !.searches = @ \ {request},
                  !.latest =
                     IF request.id = ui.issued
                     THEN [state |-> "settled",
                           articles |-> effect.articles,
                           totalResults |-> effect.totalResults,
                           error |-> IF effect.error = "kept" THEN "null"
                                     ELSE effect.error]
                     ELSE @,
                  !.lastEvent =
                    [Ran("searchReply") EXCEPT !.outcome = outcome,
                                               !.id = request.id]]
  /\ UNCHANGED << routerVars, sim >>

\* handleArticleSelect: a click on an item of the list, which is rendered
\* when nothing is loading and no article is selected
HandleArticleSelect(article) ==
  /\ ~ui.loading
  /\ ui.selectedArticle = "null"
  /\ \E i \in 1..Len(ui.articles) : ui.articles[i] = article
  /\ ui' = [ui EXCEPT
              !.selectedArticle = article,
              !.lastEvent = Ran("handleArticleSelect")]
  /\ UNCHANGED << routerVars, sim >>

\* handleBackToResults: the button of the detail view
HandleBackToResults ==
  /\ ~ui.loading
  /\ ui.selectedArticle # "null"
  /\ ui' = [ui EXCEPT
              !.selectedArticle = "null",
              !.lastEvent = Ran("handleBackToResults")]
  /\ UNCHANGED << routerVars, sim >>

\* handleAnalyzeArticle up to its await: the button of the detail view,
\* disabled while analysisLoading
HandleAnalyzeArticle ==
  /\ ~ui.loading
  /\ ui.selectedArticle # "null"
  /\ ~ui.analysisLoading
  /\ ui.analysed < MaxAnalyses
  /\ IF ui.selectedArticle = "null"
     THEN ui' = [ui EXCEPT
                   !.lastEvent =
                     Event("handleAnalyzeArticle", << >>, "returned", 0)]
     ELSE ui' = [ui EXCEPT
                   !.analysisLoading = TRUE,
                   !.error = "null",
                   !.analysed = @ + 1,
                   !.analyses = @ \cup {[id |-> ui.analysed + 1,
                                         article |-> ui.selectedArticle]},
                   !.lastEvent =
                     Event("handleAnalyzeArticle", << >>, "sent",
                           ui.analysed + 1)]
  /\ UNCHANGED << routerVars, sim >>

\* a note added whatever the analysis is
AddNoteAlways(notes, article, outcome) ==
  Append(notes, [title |-> << "AI Summary: ", article >>,
                 content |-> outcome])

\* if (analysisContent) addGlobalNote({ title, content })
AddNote(notes, article, outcome) ==
  IF outcome = "content"
  THEN Append(notes, [title |-> << "AI Summary: ", article >>,
                      content |-> outcome])
  ELSE notes

\* err.response?.data?.details || err.message || "Failed to analyze ..."
AnalysisError(outcome) ==
  IF outcome = "empty" THEN ErrNoAnalysis
  ELSE IF outcome = "details" THEN ErrDetails
  ELSE ErrNetwork

\* handleAnalyzeArticle from its await on: the call settles
AnalysisReply(request, outcome) ==
  /\ request \in ui.analyses
  /\ ui' = [ui EXCEPT
              !.globalNotes = AddNote(@, request.article, outcome),
              !.error = IF outcome = "content" THEN @
                        ELSE AnalysisError(outcome),
              !.snackbarMessage =
                 IF outcome = "content" THEN NoteAdded
                 ELSE AnalysisError(outcome),
              !.snackbarOpen = TRUE,
              !.analysisLoading = FALSE,
              !.analyses = @ \ {request},
              !.lastEvent = Event("analysisReply", << >>, outcome, request.id)]
  /\ UNCHANGED << routerVars, sim >>

\* handleCloseSnackbar
HandleCloseSnackbar(reason) ==
  /\ ui.snackbarOpen
  /\ ui' = [ui EXCEPT
              !.snackbarOpen = IF reason = "clickaway" THEN @ ELSE FALSE,
              !.lastEvent = Ran("handleCloseSnackbar")]
  /\ UNCHANGED << routerVars, sim >>

NextExplorer ==
  \/ \E q \in QueryTexts : HandleSearchChange(q)
  \/ \E source \in {"button", "enter"} : HandleSearch(source)
  \/ \E r \in ui.searches, o \in SearchOutcomes : SearchReply(r, o)
  \/ \E a \in {"a1", "a2"} : HandleArticleSelect(a)
  \/ HandleBackToResults
  \/ HandleAnalyzeArticle
  \/ \E r \in ui.analyses, o \in AnalysisOutcomes : AnalysisReply(r, o)
  \/ \E reason \in {"clickaway", "timeout"} : HandleCloseSnackbar(reason)

InitExplorer == Init /\ variant = "callRDKitScript"

SpecExplorer == InitExplorer /\ [][NextExplorer]_vars

(***************************************************************************)
(* Properties                                                              *)
(***************************************************************************)
GenerateDone == op = "generate" /\ pc = "done"

OptimizeDone == op = "optimize" /\ pc = "done"

Succeeded == response.status = 200

\* the validation call of candidate k returned a 2xx reply
CallReturned(k) == engineLog[k].status = 200

\* the engine parsed candidate k as a molecule and the reply arrived
EngineAccepted(k) == engineLog[k].script = "valid" /\ CallReturned(k)

Stored(id) == \E f \in aiStore : f.id = id

\* C1 (as stated): when extraction over the completion text yields zero
\* tokens, generate completes successfully with an empty record list.
C1_EmptyExtractionSucceeds ==
  (GenerateDone /\ completion = "text" /\ smilesCandidates = << >>)
    => (Succeeded /\ response.molecules = << >>)

\* C1 (amended): when extraction over the completion text yields zero
\* tokens, generate answers with a failure (status 500, "No valid SMILES
\* structures found"), carries no records, issues no validation or
\* prediction call and writes nothing to the result store.
C1_EmptyExtractionFails ==
  (op = "generate" /\ completion = "text" /\ smilesCandidates = << >>)
    => /\ pc = "done"
       /\ response.status = 500
       /\ response.error = ErrNoSmiles
       /\ response.molecules = << >>
       /\ calls.properties = 0
       /\ calls.admet = 0
       /\ persist = "none"
       /\ ~Stored(requestId)

C1_Witness ==
  /\ GenerateDone
  /\ sourceText = TextNone
  /\ smilesCandidates = << >>
  /\ response.status = 500

\* C2: when extraction yields at least one token and every validation call
\* errors, generate completes successfully with an empty record list.
C2_UnreachableEngineSucceeds ==
  (/\ GenerateDone
   /\ Len(smilesCandidates) >= 1
   /\ Len(engineLog) = Len(smilesCandidates)
   /\ \A k \in 1..Len(engineLog) : ~CallReturned(k))
    => (Succeeded /\ response.molecules = << >>)

C4_RecordsOnlyFromAccepted ==
  (GenerateDone /\ Succeeded)
    => /\ \A j \in 1..Len(response.molecules) :
            /\ srcIdx[j] \in 1..Len(engineLog)
            /\ EngineAccepted(srcIdx[j])
            /\ response.molecules[j].smiles = smilesCandidates[srcIdx[j]]
       /\ \A i, j \in 1..Len(srcIdx) : srcIdx[i] = srcIdx[j] => i = j
       /\ Len(response.molecules)
            <= Cardinality({k \in 1..Len(engineLog) : EngineAccepted(k)})

\* C5 (as stated): every molecule returned by optimize has passed
\* validation: each returned token has a successful validation call.
C5_OptimizeOnlyValidated ==
  (OptimizeDone /\ Succeeded)
    => \A j \in 1..Len(response.optimizedMolecules) :
         \E k \in 1..Len(engineLog) :
           /\ smilesCandidates[engineLog[k].token]
                = response.optimizedMolecules[j]
           /\ EngineAccepted(k)

\* C5 (amended): optimize returns the tokens extracted from the completion
\* text as they were extracted, in order, without validating them: no
\* validation or prediction call is issued for an extracted token (the only
\* call to the structural engine is the lookup of the input notation).
C5_OptimizeReturnsExtractedUnvalidated ==
  (OptimizeDone /\ Succeeded)
    => /\ response.optimizedMolecules = smilesCandidates
       /\ smilesCandidates = extractSMILES(sourceText)
       /\ engineLog = << >>
       /\ validatedMolecules = << >>
       /\ calls.properties = 1
       /\ calls.admet = 0

C5_Witness ==
  /\ OptimizeDone
  /\ Succeeded
  /\ sourceText = TextTwo
  /\ response.optimizedMolecules = << Acetic, Nitrile >>

\* C6: when the result-store write fails during generate or optimize, the
\* computed batch is still returned to the caller as a success.
C6_PersistFailureStillSucceeds ==
  (pc = "done" /\ persist = "failed") => Succeeded

\* C7: a failure response is returned only for missing request fields or a
\* failed text-completion call; under any combination of validation,
\* enrichment and persistence failures the operation still returns success.
\* The formula is the second clause: a run in which a validation call, a
\* prediction call or the store write failed ends in success.
C7_AbsorbedFailuresStillSucceed ==
  (/\ pc = "done"
   /\ \/ persist = "failed"
      \/ \E k \in 1..Len(engineLog) : ~CallReturned(k)
      \/ \E i \in 1..Len(admet) : admet[i] = "failed")
    => Succeeded

\* C8: a generate request without requirements, or an optimize request
\* without a notation or without a target property, is answered at once with
\* a failure: the handler never suspends, makes no call to the completion
\* service, the structural engine or the prediction engine, and writes
\* nothing to the result store.
C8_InputErrorStartsNothing ==
  (\/ (op = "generate" /\ body.requirements = "")
   \/ (op = "optimize"
         /\ (body.smiles = << >> \/ body.targetProperty = "")))
    => /\ pc = "done"
       /\ response.status = 400
       /\ response.molecules = << >>
       /\ response.optimizedMolecules = << >>
       /\ calls = NoCalls
       /\ completion = "none"
       /\ engineLog = << >>
       /\ persist = "none"
       /\ requestId = 0

C8_Witness ==
  /\ OptimizeDone
  /\ body.smiles = Acetic
  /\ body.targetProperty = ""
  /\ response.status = 400

\* C9: when the text-completion service is unreachable or returns no usable
\* content, generate returns a failure with no records; no validation or
\* prediction call is issued and no batch is written to the result store.
C9_UpstreamFailureIsFatal ==
  (op = "generate" /\ completion \in {"error", "nocontent"})
    => /\ pc = "done"
       /\ response.status = 500
       /\ response.molecules = << >>
       /\ calls.properties = 0
       /\ calls.admet = 0
       /\ engineLog = << >>
       /\ persist = "none"
       /\ ~Stored(requestId)

C9_Witness ==
  /\ GenerateDone
  /\ completion = "nocontent"
  /\ response.status = 500

\* C10: when the prediction call fails (the call throws: no reply, or a
\* reply that is not 2xx) for a validated structure, its record is still in
\* the returned batch, with no enriched properties and no default in their
\* place, and the other structures keep the result of their own prediction
\* call: once the batch is saved the request succeeds and returns one record
\* per validated structure, in order.
C10_FailedPredictionKeepsRecord ==
  (GenerateDone /\ persist = "ok")
    => /\ Succeeded
       /\ Len(response.molecules) = Len(validatedMolecules)
       /\ Len(admet) = Len(validatedMolecules)
       /\ \A i \in 1..Len(validatedMolecules) :
            /\ admet[i] = "failed"
                 => response.molecules[i] = validatedMolecules[i]
            /\ admet[i] # "failed"
                 => response.molecules[i]
                      = [validatedMolecules[i] EXCEPT !.admet = admet[i]]
            /\ validatedMolecules[i].admet = "absent"

C10_Witness ==
  /\ GenerateDone
  /\ Succeeded
  /\ Len(response.molecules) = 3
  /\ admet[2] = "failed"
  /\ response.molecules[2].admet = "absent"
  /\ response.molecules[1].admet = "valid"
  /\ response.molecules[3].admet = "valid"

\* C11 (as stated): given three prediction categories where one always
\* errors, the record of the structure carries a predictions map with
\* exactly the two successful keys and a predictionErrors set that contains
\* the third category, and the structure is in the final batch.
C11_PartialFailureRecorded ==
  (GenerateDone /\ Succeeded)
    => /\ Len(response.molecules) = Len(admet)
       /\ \A i \in 1..Len(admet) :
            admet[i] = "partial"
              => /\ PredictionKeys(response.molecules[i].admet)
                      = Categories \ {FailingCategory}
                 /\ "predictionErrors" \in DOMAIN response.molecules[i]
                 /\ FailingCategory \in response.molecules[i].predictionErrors

\* C11 (amended): given three prediction categories where one always
\* errors, the structure is still in the final batch; its record carries the
\* reply of the one prediction call unchanged (exactly the two successful
\* keys when the engine returns them) or no enriched properties when the
\* call fails as a whole, and no record has a predictionErrors set.
C11_PartialResultPassedThrough ==
  (GenerateDone /\ Succeeded)
    => /\ Len(response.molecules) = Len(validatedMolecules)
       /\ Len(admet) = Len(validatedMolecules)
       /\ \A i \in 1..Len(admet) :
            /\ DOMAIN response.molecules[i]
                 = {"smiles", "name", "properties", "admet"}
            /\ response.molecules[i].smiles = validatedMolecules[i].smiles
            /\ admet[i] = "partial"
                 => /\ response.molecules[i].admet = "partial"
                    /\ PredictionKeys(response.molecules[i].admet)
                         = Categories \ {FailingCategory}
            /\ admet[i] = "failed"
                 => response.molecules[i].admet = "absent"

C11_Witness ==
  /\ GenerateDone
  /\ Succeeded
  /\ Len(admet) >= 1
  /\ admet[1] = "partial"
  /\ response.molecules[1].admet = "partial"

\* the validation loop of generate has run to its end
ValidationOver ==
  op = "generate" /\ pc \in {"enriching", "done"} /\ completion = "text"
    /\ smilesCandidates # << >>

\* the number written into the name of a record
Ordinal(record) == record.name[2]

\* C12: for every record list a batch produces (the validated list and the
\* list in the response) the ordinals in the names are 1, 2, ..., k without
\* gap or repeat, in extraction order of the tokens that were accepted; a
\* token that was rejected (no record pushed) uses up no ordinal, so the
\* j-th record belongs to the j-th accepted token.
C12_OrdinalsContiguous ==
  /\ \A j \in 1..Len(validatedMolecules) :
       Ordinal(validatedMolecules[j]) = j
  /\ Len(srcIdx) = Len(validatedMolecules)
  /\ \A i, j \in 1..Len(srcIdx) : i < j => srcIdx[i] < srcIdx[j]
  /\ \A j \in 1..Len(srcIdx) :
       /\ srcIdx[j] \in 1..Len(engineLog)
       /\ CallReturned(srcIdx[j])
       /\ j = Cardinality({k \in 1..srcIdx[j] : CallReturned(k)})
       /\ validatedMolecules[j].smiles = smilesCandidates[srcIdx[j]]
  /\ (GenerateDone /\ Succeeded)
       => /\ Len(response.molecules) = Len(validatedMolecules)
          /\ \A j \in 1..Len(response.molecules) :
               /\ Ordinal(response.molecules[j]) = j
               /\ response.molecules[j].smiles
                    = smilesCandidates[srcIdx[j]]

C12_Witness ==
  /\ GenerateDone
  /\ Succeeded
  /\ Len(engineLog) = 3
  /\ CallReturned(1)
  /\ ~CallReturned(2)
  /\ CallReturned(3)
  /\ srcIdx = << 1, 3 >>
  /\ Ordinal(response.molecules[1]) = 1
  /\ Ordinal(response.molecules[2]) = 2

\* C13 (as stated): source text with exactly one well-formed structure
\* notation and no decoys yields a batch with exactly one record whose
\* displayName is "Generated Molecule 1".
C13_SingleRecordNamedGenerated ==
  (ValidationOver /\ sourceText = TextOne /\ EngineAccepted(1))
    => /\ Len(validatedMolecules) = 1
       /\ validatedMolecules[1].name = << "Generated Molecule", 1 >>

\* C13 (amended): source text with exactly one well-formed structure
\* notation and no decoys yields exactly one record, it carries that
\* notation, and its name is "Claude Generated Molecule 1"; a batch that is
\* returned for the text has exactly that record.
C13_SingleRecordNamedClaude ==
  (ValidationOver /\ sourceText = TextOne /\ EngineAccepted(1))
    => /\ Len(validatedMolecules) = 1
       /\ validatedMolecules[1].smiles = Acetic
       /\ validatedMolecules[1].name = << "Claude Generated Molecule", 1 >>
       /\ (GenerateDone /\ Succeeded)
            => /\ Len(response.molecules) = 1
               /\ response.molecules[1].smiles = Acetic
               /\ response.molecules[1].name
                    = << "Claude Generated Molecule", 1 >>

C13_Witness ==
  /\ GenerateDone
  /\ Succeeded
  /\ sourceText = TextOne
  /\ EngineAccepted(1)
  /\ Len(response.molecules) = 1
  /\ response.molecules[1].name = << "Claude Generated Molecule", 1 >>

\* the call of extractSMILES has returned
Extracted == pc = "extracted"

\* the token has the four letters of the URL scheme in a row
HasHttp(token) ==
  \E k \in 1..(Len(token) - 3) :
    token[k] = "h" /\ token[k + 1] = "t" /\ token[k + 2] = "t"
      /\ token[k + 3] = "p"

\* the lexical candidates of a text, left to right
LexicalCandidates(text) == RegexMatches(text, 0)

\* C14: for all input text, extract never returns a token shorter than the
\* minimum length (every returned token has more than 5 characters) and
\* never returns a token that contains the substring http.
C14_NoShortNoHttp ==
  Extracted
    => \A j \in 1..Len(smilesCandidates) :
         /\ Len(smilesCandidates[j]) > 5
         /\ ~HasHttp(smilesCandidates[j])

C14_Witness ==
  /\ Extracted
  /\ sourceText = TextDecoys
  /\ \E k \in 1..Len(LexicalCandidates(sourceText)) :
       Len(LexicalCandidates(sourceText)[k]) <= 5
  /\ \E k \in 1..Len(LexicalCandidates(sourceText)) :
       HasHttp(LexicalCandidates(sourceText)[k])
  /\ smilesCandidates = << Acetic >>

\* the four filters, each stated on the characters of the token
PassesAllFour(token) ==
  /\ Len(token) > 5
  /\ ~HasHttp(token)
  /\ \E k \in 1..Len(token) : token[k] \in {"C", "N", "O"}
  /\ \E k \in 1..Len(token) : token[k] \in {"(", "=", "[", "#"}

\* C15: for all input text, a lexical candidate is returned by extract if
\* and only if it passes all four filters (more than 5 characters, no http,
\* one of C, N, O, and one of "(", "=", "[", "#"), and the returned tokens
\* keep their order of occurrence: the result is the sequence of lexical
\* candidates with the ones that fail a filter taken out.
C15_ExactlyTheFiltered ==
  Extracted
    => smilesCandidates
         = SelectSeq(LexicalCandidates(sourceText), PassesAllFour)

C15_Witness ==
  /\ Extracted
  /\ sourceText = TextAtoms
  /\ Len(LexicalCandidates(sourceText)) = 5
  /\ smilesCandidates = << OnlyN, Bracketed, OnlyO >>

\* C16: extract never raises, for any input text, and returns an empty
\* sequence when no substring qualifies, also when the lexical pattern
\* matches nothing at all.
C16_NeverRaises ==
  /\ pc # "raised"
  /\ Extracted
       => LET cands == LexicalCandidates(sourceText)
          IN  (\A k \in 1..Len(cands) : ~PassesAllFour(cands[k]))
                => smilesCandidates = << >>

C16_Witness ==
  /\ Extracted
  /\ Len(sourceText) = 3
  /\ LexicalCandidates(sourceText) = << >>
  /\ smilesCandidates = << >>

\* the result the record carries for a settled call
Carried(result) == IF result = "failed" THEN "absent" ELSE result

\* C17: the order of the records in the returned batch is the extraction
\* order of their source tokens, for every order in which the concurrent
\* enrichment calls complete or fail: the result of the i-th call is kept at
\* index i whenever it settles, and the returned list has the validated
\* records in extraction order, each with the result of its own call.
C17_OrderIsExtractionOrder ==
  (op = "generate" /\ pc \in {"enriching", "done"} /\ persist = "ok")
    => /\ Len(admet) = Len(validatedMolecules)
       /\ \A e \in callLog : e[1] \in 1..Len(admet) /\ admet[e[1]] = e[2]
       /\ \A e, f \in callLog : e[1] = f[1] => e = f
       /\ pc = "done"
            => /\ Len(response.molecules) = Len(srcIdx)
               /\ \A i, j \in 1..Len(srcIdx) : i < j => srcIdx[i] < srcIdx[j]
               /\ \A j \in 1..Len(srcIdx) :
                    /\ response.molecules[j].smiles
                         = smilesCandidates[srcIdx[j]]
                    /\ \E e \in callLog :
                         /\ e[1] = j
                         /\ response.molecules[j].admet = Carried(e[2])

\* the third call has failed while the first two are still in flight
C17_Witness ==
  /\ op = "generate"
  /\ pc = "enriching"
  /\ Len(admet) = 3
  /\ admet[1] = "pending"
  /\ admet[2] = "pending"
  /\ callLog = {<< 3, "failed" >>}
  /\ admet[3] = "failed"

\* C18: within one batch the stages are separated by barriers: no
\* enrichment call is issued before every validation call of the batch has
\* completed, and the response is sent only after every enrichment call of
\* the batch has settled, with success or with failure.
C18_StageBarriers ==
  op = "generate"
    => /\ (calls.admet > 0 \/ admet # << >> \/ callLog # {})
            => /\ Len(engineLog) = Len(smilesCandidates)
               /\ calls.properties = Len(smilesCandidates)
       /\ pc = "validating"
            => /\ Len(engineLog) < Len(smilesCandidates)
               /\ calls.admet = 0
               /\ response = NoResponse
       /\ pc = "enriching" => response = NoResponse
       /\ (pc = "done" /\ Succeeded)
            => /\ calls.admet = Len(validatedMolecules)
               /\ Len(admet) = calls.admet
               /\ \A i \in 1..Len(admet) : admet[i] # "pending"
               /\ \A i \in 1..Len(admet) : \E e \in callLog : e[1] = i
               /\ \A i \in 1..Len(response.molecules) :
                    response.molecules[i].admet # "pending"

C18_Witness ==
  /\ GenerateDone
  /\ Succeeded
  /\ Len(engineLog) = 3
  /\ calls.admet = 3
  /\ admet[1] = "valid"
  /\ admet[2] = "failed"
  /\ admet[3] = "valid"

\* C19: structures are not deduplicated: a notation extracted k times from
\* one source text, and accepted each time, has k records in the batch and
\* each record has its own ordinal.
C19_NoDeduplication ==
  ValidationOver
    => /\ \A k \in 1..Len(smilesCandidates) :
            Cardinality({j \in 1..Len(validatedMolecules) :
                           validatedMolecules[j].smiles = smilesCandidates[k]})
              = Cardinality({m \in 1..Len(engineLog) :
                               /\ smilesCandidates[m] = smilesCandidates[k]
                               /\ CallReturned(m)})
       /\ \A i, j \in 1..Len(validatedMolecules) :
            validatedMolecules[i].name = validatedMolecules[j].name => i = j
       /\ (GenerateDone /\ Succeeded)
            => /\ Len(response.molecules) = Len(validatedMolecules)
               /\ \A j \in 1..Len(response.molecules) :
                    /\ response.molecules[j].smiles
                         = validatedMolecules[j].smiles
                    /\ response.molecules[j].name
                         = validatedMolecules[j].name

C19_Witness ==
  /\ GenerateDone
  /\ Succeeded
  /\ sourceText = TextThree
  /\ smilesCandidates[1] = smilesCandidates[3]
  /\ Len(response.molecules) = 3
  /\ response.molecules[1].smiles = Acetic
  /\ response.molecules[3].smiles = Acetic
  /\ Ordinal(response.molecules[1]) = 1
  /\ Ordinal(response.molecules[3]) = 3

\* the batch of an invocation is made from its own source text and numbered
\* from 1 without gaps
BatchOwn(ctx) ==
  (ctx.op = "generate" /\ ctx.completion = "text")
    => /\ ctx.smilesCandidates = extractSMILES(ctx.sourceText)
       /\ Len(ctx.srcIdx) = Len(ctx.validatedMolecules)
       /\ \A j \in 1..Len(ctx.validatedMolecules) :
            /\ ctx.srcIdx[j] \in 1..Len(ctx.smilesCandidates)
            /\ ctx.validatedMolecules[j].smiles
                 = ctx.smilesCandidates[ctx.srcIdx[j]]
            /\ Ordinal(ctx.validatedMolecules[j]) = j
       /\ (ctx.pc = "done" /\ ctx.response.status = 200)
            => /\ Len(ctx.response.molecules) = Len(ctx.validatedMolecules)
               /\ \A j \in 1..Len(ctx.response.molecules) :
                    /\ ctx.response.molecules[j].smiles
                         = ctx.validatedMolecules[j].smiles
                    /\ Ordinal(ctx.response.molecules[j]) = j
       /\ ctx.persist = "ok"
            => \A f \in aiStore :
                 f.id = ctx.requestId
                   => f.generatedMolecules = ctx.validatedMolecules

\* C20: two generate requests running concurrently share no mutable state:
\* under every interleaving of their validation and enrichment calls, each
\* batch has only records derived from its own source text and its ordinals
\* start at 1 and are contiguous.
C20_BatchesIndependent ==
  /\ BatchOwn(Current)
  /\ BatchOwn(parked)
  /\ (requestId # 0 /\ parked.requestId # 0) => requestId # parked.requestId

\* the request that started second has answered while the first one is
\* still validating its second token
C20_Witness ==
  /\ op = "generate"
  /\ pc = "validating"
  /\ sourceText = TextTwo
  /\ Len(validatedMolecules) = 1
  /\ parked.op = "generate"
  /\ parked.pc = "done"
  /\ parked.response.status = 200
  /\ parked.sourceText = TextOne
  /\ Len(parked.response.molecules) = 1
  /\ requestId < parked.requestId

\* C21: the result store is append-only: once a record has been written
\* under an id, no later operation overwrites, alters or deletes the content
\* stored under that id: every file still has the content of its first
\* write.
C21_StoreAppendOnly ==
  \A f \in sim.firstStored :
    /\ FileExists(sim.store, f.name)
    /\ ReadFile(sim.store, f.name) = f.data

\* the outcome the engine gave for the notation stored in record j, which an
\* idempotent engine gives again when the notation is submitted again
Reparse(j) == engineLog[srcIdx[j]].script

\* C22: for every record produced by the pipeline, re-submitting the
\* record's stored notation to the structural-chemistry engine succeeds: the
\* notation stored in a record is always one the engine parses as valid.
C22_StoredNotationReparses ==
  op = "generate"
    => /\ Len(srcIdx) = Len(validatedMolecules)
       /\ \A j \in 1..Len(validatedMolecules) :
            /\ validatedMolecules[j].smiles = smilesCandidates[srcIdx[j]]
            /\ Reparse(j) = "valid"

\* a record with its enriched properties removed
WithoutEnrichment(record) == [record EXCEPT !.admet = "absent"]

\* C24: in generate the batch is written to the result store after
\* validation has finished and before any enrichment call is issued (a
\* failed write issues none), so the stored records never carry enrichment
\* data: the records persisted under a request id equal the returned records
\* with their enriched properties removed.
C24_StoredBeforeEnrichment ==
  op = "generate"
    => /\ Stored(requestId)
            => /\ pc \in {"enriching", "done"}
               /\ completion = "text"
               /\ Len(engineLog) = Len(smilesCandidates)
       /\ calls.admet > 0 => Stored(requestId)
       /\ persist = "failed" => (calls.admet = 0 /\ ~Stored(requestId))
       /\ \A f \in aiStore :
            f.id = requestId
              => /\ f.prefix = ""
                 /\ f.generatedMolecules = validatedMolecules
                 /\ \A i \in 1..Len(f.generatedMolecules) :
                      f.generatedMolecules[i].admet = "absent"
                 /\ (pc = "done" /\ Succeeded)
                      => /\ Len(response.molecules)
                              = Len(f.generatedMolecules)
                         /\ \A i \in 1..Len(response.molecules) :
                              WithoutEnrichment(response.molecules[i])
                                = f.generatedMolecules[i]

C24_Witness ==
  /\ GenerateDone
  /\ Succeeded
  /\ Len(response.molecules) >= 1
  /\ response.molecules[1].admet = "valid"
  /\ \E f \in aiStore :
       /\ f.id = requestId
       /\ Len(f.generatedMolecules) = Len(response.molecules)
       /\ f.generatedMolecules[1].admet = "absent"

C25_ReturnedIdsRetrievable ==
  sim.response.op = "results"
    => /\ \A r \in sim.returned :
            sim.response.id = SimulationName(r.id)
              => /\ sim.response.status = 200
                 /\ sim.response.data = r.data
       /\ sim.response.status = 404
            => ~\E f \in sim.firstStored :
                 SimulationName(f.data.id) = sim.response.id

\* C26: the loading flag is true whenever a search request is in flight and
\* false otherwise, for every sequence of searches including a search
\* started by the Enter key while an earlier one is still pending.
C26_LoadingIffInFlight == ui.loading <=> ui.searches # {}

\* C27: once all in-flight searches have settled, the displayed articles,
\* total count and error are those of the most recently issued search,
\* regardless of the order in which the responses of overlapping searches
\* arrive (the error of a search being the message its failure sets).
C27_LatestSearchShown ==
  (ui.lastEvent.handler = "searchReply" /\ ui.searches = {})
    => /\ ui.latest.state = "settled"
       /\ ui.articles = ui.latest.articles
       /\ ui.totalResults = ui.latest.totalResults
       /\ (ui.error \in {ErrServer, ErrSearch} \/ ui.latest.error # "null")
            => ui.error = ui.latest.error

\* a text of white space only, the empty text included
WhitespaceOnly(q) == \A i \in 1..Len(q) : q[i] = " "

\* C28: handleSearch with an empty or whitespace-only query sets the error
\* message and does nothing else: no search request is issued and loading,
\* articles, totalResults, currentPage and selectedArticle are left
\* unchanged.
C28_BlankSearchSetsErrorOnly ==
  (ui.lastEvent.handler = "handleSearch"
     /\ WhitespaceOnly(ui.lastEvent.query))
    => /\ ui.error = ErrEmptyQuery
       /\ ui.lastEvent.outcome = "returned"
       /\ ui.searchQuery = ui.lastEvent.query
       /\ Frame(ui) = [ui.lastEvent.before EXCEPT !.error = ErrEmptyQuery]

C28_Witness ==
  /\ ui.lastEvent.handler = "handleSearch"
  /\ ui.lastEvent.query = <<" ">>
  /\ ui.error = ErrEmptyQuery
  /\ ui.articles # << >>
  /\ ui.searches # {}
  /\ ui.loading

\* C29: one invocation of handleAnalyzeArticle adds at most one global note,
\* and adds it only when an article is selected and the analysis call
\* returned non-empty content; on a failed or empty analysis no note is added
\* and the error is set; analysisLoading is false again after every
\* invocation.
C29_AnalysisAddsAtMostOneNote ==
  /\ ui.analysisLoading <=> ui.analyses # {}
  /\ Len(ui.globalNotes) + Cardinality(ui.analyses) <= ui.analysed
  /\ \A n \in 1..Len(ui.globalNotes) :
       /\ ui.globalNotes[n].content = "content"
       /\ ui.globalNotes[n].title[2] # "null"
  /\ ui.lastEvent.handler = "handleAnalyzeArticle"
       => /\ Len(ui.globalNotes) = ui.lastEvent.before.notes
          /\ ui.lastEvent.outcome = "sent"
               <=> ui.lastEvent.before.selectedArticle # "null"
  /\ ui.lastEvent.handler = "analysisReply"
       => /\ ~ui.analysisLoading
          /\ IF ui.lastEvent.outcome = "content"
             THEN Len(ui.globalNotes) = ui.lastEvent.before.notes + 1
             ELSE /\ Len(ui.globalNotes) = ui.lastEvent.before.notes
                  /\ ui.error \in {ErrNoAnalysis, ErrDetails, ErrNetwork}

C29_Witness ==
  /\ ui.lastEvent.handler = "analysisReply"
  /\ ui.lastEvent.outcome = "content"
  /\ Len(ui.globalNotes) = 1
  /\ ui.globalNotes[1].title = << "AI Summary: ", "a2" >>
  /\ ~ui.analysisLoading

\* the output spells a JSON value when the white space around it is ignored
SpellsJson(text) ==
  \E i, j \in 1..Len(text) :
    /\ j = i + 1
    /\ text[i] = "{"
    /\ text[j] = "}"
    /\ \A k \in 1..Len(text) : k \notin {i, j} => text[k] = "\n"

\* C30: the promise returned by runRDKitScript and callRDKitScript settles
\* exactly once, at the subprocess close event: it rejects when the exit
\* code is non-zero; on exit code 0 runRDKitScript resolves with the parsed
\* JSON output or, if the output is not JSON, with the raw text, while
\* callRDKitScript rejects when the output is not JSON.
C30_SettlesOnceAtClose ==
  /\ sim.child = "running"
       => (sim.promise.state = "pending" /\ sim.promise.settles = 0)
  /\ sim.child = "closed"
       => /\ sim.promise.settles = 1
          /\ IF sim.code # 0
             THEN sim.promise.state = "rejected"
             ELSE IF SpellsJson(sim.resultData)
             THEN /\ sim.promise.state = "fulfilled"
                  /\ sim.promise.value.kind = "json"
             ELSE IF variant = "runRDKitScript"
             THEN /\ sim.promise.state = "fulfilled"
                  /\ sim.promise.value
                       = [kind |-> "text", text |-> sim.resultData]
             ELSE /\ sim.promise.state = "rejected"
                  /\ sim.promise.value.kind = "SyntaxError"

C30_Witness ==
  /\ sim.child = "closed"
  /\ sim.code = 0
  /\ variant = "callRDKitScript"
  /\ sim.resultData = << "{", "x" >>
  /\ sim.promise.state = "rejected"
  /\ sim.promise.settles = 1

====
